---- MODULE Spec2Model ----
(***************************************************************************)
(* A model of the EIA weekly-series pipeline: the pandas helpers of        *)
(* tests/eia_part3.py, the pandera schema of validation.py, and the        *)
(* dashboards Homepage.py, pages/2_WTI_Price.py, Pages_test/2_WTI_Price.py *)
(* and app.py that run them.                                               *)
(*                                                                         *)
(* Dates are day numbers; day 0 is Monday 2011-12-26, so 2011-12-30 is 4,  *)
(* 2012-01-01 is 6, 2012-01-03 (a Tuesday) is 8 and 2012-01-06 (a Friday)  *)
(* is 11.  A timestamp is a day and a time of day (0: midnight, 1: the     *)
(* last nanosecond of the day).  Numbers are exact rationals n/d.          *)
(***************************************************************************)
EXTENDS Integers, Sequences, FiniteSets, TLC

VARIABLES
    script,         \* the file that runs: a test file or a dashboard
    pc,             \* where the dashboard script is
    js,             \* the decoded response bodies: [supply, wti]
    data,           \* the list of raw records handed to the helpers
    df,             \* the current frame
    arg,            \* the frame passed to the last helper called
    op,             \* the last helper called
    start,          \* the start date of the last filter
    ret,            \* what the last call returned or raised
    supply, wti,    \* the two weekly series of app.py
    merged,         \* their merge
    rolling_weeks,  \* the rolling window chosen in the sidebar
    end_ts,         \* the end date chosen in the sidebar
    shown,          \* the message the script stopped with
    metric          \* the "latest" metrics shown: [total, wti]

vars == <<script, pc, js, data, df, arg, op, start, ret,
          supply, wti, merged, rolling_weeks, end_ts, shown, metric>>

----------------------------------------------------------------------------
(* Bounds of the model. *)

\* Longest list of raw records a test passes to the helpers.
MaxLen == 3
\* Weeks of calendar days the week-ending-Friday test draws its dates from.
NumWeeks == 2
\* Longest list of records in a payload a dashboard receives.
MaxRows == 2
\* Largest rolling window tried (the slider of app.py allows up to 12).
MaxRolling == 3

----------------------------------------------------------------------------
(* Cells.  A JSON scalar, a pandas Timestamp/NaT, a float/NaN. *)

DateStr(d) == [k |-> "datestr", day |-> d, tod |-> 0]
BadDateStr == [k |-> "str", day |-> 0, tod |-> 0]
NullDate == [k |-> "null", day |-> 0, tod |-> 0]
Ts(d, t) == [k |-> "ts", day |-> d, tod |-> t]
NaT == [k |-> "nat", day |-> 0, tod |-> 0]
NoDate == [k |-> "absent", day |-> 0, tod |-> 0]

NumStr(n) == [k |-> "numstr", n |-> n, d |-> 1]
BadNumStr == [k |-> "str", n |-> 0, d |-> 1]
NullNum == [k |-> "null", n |-> 0, d |-> 1]
NaN == [k |-> "nan", n |-> 0, d |-> 1]
NoNum == [k |-> "absent", n |-> 0, d |-> 1]

Abs(x) == IF x < 0 THEN -x ELSE x

RECURSIVE Gcd(_, _)
Gcd(a, b) == IF b = 0 THEN a ELSE Gcd(b, a % b)

\* The float n/d, in lowest terms with a positive denominator.
Num(n, d) ==
    LET g == Gcd(Abs(n), Abs(d))
        s == IF d < 0 THEN -1 ELSE 1
    IN [k |-> "num", n |-> (s * n) \div g, d |-> (s * d) \div g]

NumAdd(a, b) == Num(a.n * b.d + b.n * a.d, a.d * b.d)
NumGe(a, b) == a.n * b.d >= b.n * a.d

isna(c) == c.k \in {"nat", "nan", "null"}

\* a >= b on timestamps; a comparison with NaT is False.
TsGe(a, b) ==
    /\ a.k = "ts"
    /\ b.k = "ts"
    /\ \/ a.day > b.day
       \/ a.day = b.day /\ a.tod >= b.tod

TsLt(a, b) == a.k = "ts" /\ b.k = "ts" /\ ~TsGe(a, b)

----------------------------------------------------------------------------
(* pandas conversions. *)

\* pd.to_datetime(x, errors="coerce"): an ISO date string is midnight of its
\* day, a Timestamp is itself, anything else is NaT.
to_datetime(c) ==
    CASE c.k = "datestr" -> Ts(c.day, 0)
      [] c.k = "ts" -> c
      [] OTHER -> NaT

\* pd.to_numeric(x, errors="coerce"): a numeric string or a number is its
\* value as a float, anything else is NaN.
to_numeric(c) ==
    CASE c.k = "numstr" -> Num(c.n, c.d)
      [] c.k = "num" -> c
      [] OTHER -> NaN

\* pd.DataFrame(list of dicts): one row per record under a RangeIndex.  A
\* column the records do not have is absent.
DataFrame(records) ==
    [i \in 1..Len(records) |->
        [idx |-> i - 1, period |-> records[i].period, value |-> records[i].value,
         week |-> NoDate, week_ending |-> NoDate]]

df_empty(t) == Len(t) = 0

\* A dropna that drops a row only when every cell of the subset is missing
\* (how="all").
dropna_how_all(t) == SelectSeq(t, LAMBDA r : ~(isna(r.week) /\ isna(r.value)))

\* df.dropna(subset=[week, value]): a row with a missing cell in either column
\* is dropped; the rows kept keep their order and their index labels.
dropna(t) == SelectSeq(t, LAMBDA r : ~isna(r.week) /\ ~isna(r.value))

reset_index(t) == [i \in 1..Len(t) |-> [t[i] EXCEPT !.idx = i - 1]]

\* Insert row r into the week-sorted table t, after the rows that are not later.
RECURSIVE InsertByWeek(_, _)
InsertByWeek(t, r) ==
    IF t = <<>> THEN <<r>>
    ELSE IF TsLt(r.week, Head(t).week) THEN <<r>> \o t
    ELSE <<Head(t)>> \o InsertByWeek(Tail(t), r)

\* df.sort_values(week): ascending and stable.
RECURSIVE sort_values(_)
sort_values(t) ==
    IF t = <<>> THEN <<>>
    ELSE InsertByWeek(sort_values(SubSeq(t, 1, Len(t) - 1)), t[Len(t)])

\* The group keys of df.groupby(week): the distinct weeks, NaT left out
\* (dropna=True), in ascending order (sort=True).
RECURSIVE KeysAscending(_)
KeysAscending(S) ==
    IF S = {} THEN <<>>
    ELSE LET m == CHOOSE x \in S : \A y \in S : TsGe(y, x)
         IN <<m>> \o KeysAscending(S \ {m})

GroupKeys(t) == KeysAscending({t[i].week : i \in DOMAIN t} \ {NaT})

RECURSIVE SumValues(_)
SumValues(rows) ==
    IF rows = <<>> THEN Num(0, 1)
    ELSE NumAdd(SumValues(SubSeq(rows, 1, Len(rows) - 1)), rows[Len(rows)].value)

\* A reduction that keeps the last value of the group.
agg_last(rows) == rows[Len(rows)].value

\* .sum() of a group.
agg_sum(rows) == SumValues(rows)

\* .mean() of a group.
agg_mean(rows) ==
    LET s == SumValues(rows) IN Num(s.n, s.d * Len(rows))

\* df.groupby(week): the groups in key order, each with its rows in frame order.
groupby(t) ==
    LET keys == GroupKeys(t)
    IN [i \in 1..Len(keys) |->
          [week |-> keys[i], rows |-> SelectSeq(t, LAMBDA r : r.week = keys[i])]]

\* The frame of a reduced groupby (as_index=False): one row per key under a
\* RangeIndex, the columns week and value only.
GroupFrame(g, values) ==
    [i \in DOMAIN g |->
        [idx |-> i - 1, period |-> NoDate, value |-> values[i],
         week |-> g[i].week, week_ending |-> NoDate]]

\* df.groupby(week, as_index=False)[value].sum()
groupby_sum(t) ==
    LET g == groupby(t) IN GroupFrame(g, [i \in DOMAIN g |-> agg_sum(g[i].rows)])

\* df.groupby(week, as_index=False)[value].mean()
groupby_mean(t) ==
    LET g == groupby(t) IN GroupFrame(g, [i \in DOMAIN g |-> agg_mean(g[i].rows)])

----------------------------------------------------------------------------
(* tests/eia_part3.py *)

build_df_from_eia_data(records) ==
    LET df0 == DataFrame(records)
        df1 == [i \in DOMAIN df0 |->
                  [df0[i] EXCEPT !.week = to_datetime(df0[i].period),
                                 !.value = to_numeric(df0[i].value)]]
    IN IF df_empty(df0) THEN df0 ELSE dropna(df1)

\* A filter that keeps only the rows strictly after the start date.
filter_after(t, start_date) ==
    SelectSeq(t, LAMBDA r : TsGe(r.week, to_datetime(start_date))
                            /\ r.week # to_datetime(start_date))

\* A filter that takes the table for ascending and keeps it from its first
\* row on or after the start date (df.iloc[first:]).
filter_from_first_match(t, start_date) ==
    LET hits == {i \in DOMAIN t : TsGe(t[i].week, to_datetime(start_date))}
    IN IF hits = {} THEN <<>>
       ELSE SubSeq(t, CHOOSE i \in hits : \A j \in hits : i <= j, Len(t))

filter_since(t, start_date) ==
    IF df_empty(t) THEN t
    ELSE SelectSeq(t, LAMBDA r : TsGe(r.week, to_datetime(start_date)))

\* df[week].idxmax(): the index label of the first row holding the maximum.
idxmax(t) ==
    LET i == CHOOSE i \in DOMAIN t :
                /\ \A j \in DOMAIN t : t[j].week.k = "ts" => TsGe(t[i].week, t[j].week)
                /\ \A j \in 1..(i - 1) : ~TsGe(t[j].week, t[i].week)
    IN t[i].idx

\* df.loc[label, value]: the value of the row with that index label.
loc(t, label) == (CHOOSE r \in {t[i] : i \in DOMAIN t} : r.idx = label).value

\* A latest value read from the last physical row (df[value].iloc[-1]).
latest_by_position(t) ==
    IF df_empty(t) THEN [err |-> "ValueError", val |-> NaN]
    ELSE [err |-> "none", val |-> t[Len(t)].value]

latest_value(t) ==
    IF df_empty(t) THEN [err |-> "ValueError", val |-> NaN]
    ELSE [err |-> "none", val |-> loc(t, idxmax(t))]

sum_by_week(t) ==
    IF df_empty(t) THEN t
    ELSE reset_index(sort_values(groupby_sum(t)))

\* ts.to_period("W-FRI"): the ordinal of the Saturday-to-Friday week holding
\* the timestamp; week p runs from day 7p - 2 to day 7p + 4.
to_period_W_FRI(ts) == (ts.day + 2) \div 7

\* period.end_time: the last nanosecond of the week's Friday.
end_time(p) == Ts(7 * p + 4, 1)

\* The timestamp left as it is (the .dt.normalize() call forgotten).
normalize_forgotten(ts) == ts

\* ts.normalize(): midnight of the same day.
normalize(ts) == Ts(ts.day, 0)

\* The Friday of the Monday-to-Sunday (ISO) week holding the timestamp.
iso_week_friday(ts) == Ts(ts.day - (ts.day % 7) + 4, 0)

week_ending_friday(ts) ==
    IF ts.k = "ts" THEN normalize(end_time(to_period_W_FRI(ts))) ELSE NaT

add_week_ending_friday_column(t) ==
    IF df_empty(t) THEN t
    ELSE [i \in DOMAIN t |-> [t[i] EXCEPT !.week_ending = week_ending_friday(t[i].week)]]

----------------------------------------------------------------------------
(* validation.py *)

\* A value check that demands a strictly positive value (Check.gt(0)).
value_check_gt(c) == c.k = "num" /\ c.n > 0

\* checks=Check.ge(0) on a coerced, non-null value.
value_check(c) == c.k = "num" /\ NumGe(c, Num(0, 1))

\* coerce=True on Column(pa.Float): astype(float) of a cell; a string that is
\* no number cannot be coerced and stays what it is.
coerce_float(c) ==
    CASE c.k = "num" -> c
      [] c.k = "numstr" -> Num(c.n, c.d)
      [] c.k \in {"nan", "null"} -> NaN
      [] OTHER -> c

\* eia_schema.validate(df): the table with its value column coerced, or a
\* SchemaError when a column is missing, the week column holds anything but
\* timestamps, or a value is not coercible, is null (nullable=False) or fails
\* the check.
eia_schema_validate(t) ==
    LET coerced == [i \in DOMAIN t |-> [t[i] EXCEPT !.value = coerce_float(t[i].value)]]
        ok == \A i \in DOMAIN t : /\ t[i].week.k = "ts"
                                   /\ coerced[i].value.k = "num"
                                   /\ value_check(coerced[i].value)
    IN IF ok THEN [err |-> "none", val |-> coerced]
       ELSE [err |-> "SchemaError", val |-> <<>>]

----------------------------------------------------------------------------
(* The inputs of the tests. *)

SeqsUpTo(S, n) == UNION {[1..m -> S] : m \in 0..n}

\* 2011-12-30, 2012-01-06 and 2012-01-13, the dates of test_eia_part3.py.
TestDays == {4, 11, 18}
\* 2012-01-01 (the start date of the tests and the dashboards) and 2012-01-06.
StartDays == {6, 11}

RawRecords ==
    [period : {DateStr(d) : d \in TestDays} \cup {BadDateStr},
     value : {NumStr(1), NumStr(2), BadNumStr}]

CalendarRecords ==
    [period : {DateStr(d) : d \in 0..(7 * NumWeeks - 1)}, value : {NoNum}]

ValidationRecords ==
    [period : {DateStr(11), NullDate},
     value : {Num(-5, 1), Num(0, 1), Num(1, 1), NullNum, BadNumStr}]

\* pd.DataFrame({"week": pd.to_datetime([...]), "value": [...]}), the frame a
\* test builds by hand; None in a column is a missing cell.
frame_from_columns(records) ==
    [i \in 1..Len(records) |->
        [idx |-> i - 1, period |-> NoDate,
         value |-> IF records[i].value.k = "null" THEN NaN ELSE records[i].value,
         week |-> to_datetime(records[i].period), week_ending |-> NoDate]]

NoRet == [err |-> "none", val |-> NaN]
NoJs == [response |-> "unset", data |-> "unset", rows |-> <<>>]
NoMetric == [total |-> NoNum, wti |-> NoNum]

DashIdle ==
    /\ pc = "test"
    /\ js = [supply |-> NoJs, wti |-> NoJs]
    /\ supply = <<>>
    /\ wti = <<>>
    /\ merged = <<>>
    /\ rolling_weeks = 1
    /\ end_ts = 0
    /\ shown = "none"
    /\ metric = NoMetric

InitTests ==
    /\ \/ script = "test_eia_part3" /\ data \in SeqsUpTo(RawRecords, MaxLen)
       \/ script = "test_week_ending" /\ data \in SeqsUpTo(CalendarRecords, MaxLen)
       \/ script = "test_validation" /\ data \in SeqsUpTo(ValidationRecords, MaxLen)
    /\ df = <<>>
    /\ arg = <<>>
    /\ op = "none"
    /\ start = 0
    /\ ret = NoRet
    /\ DashIdle

dashvars == <<script, pc, js, supply, wti, merged, rolling_weeks, end_ts, shown, metric>>

\* df = build_df_from_eia_data(data)
CallBuild ==
    /\ script = "test_eia_part3"
    /\ op = "none"
    /\ df' = build_df_from_eia_data(data)
    /\ op' = "build_df_from_eia_data"
    /\ UNCHANGED <<data, arg, start, ret, dashvars>>

\* df2 = filter_since(df, "week", s)
CallFilterSince(s) ==
    /\ script = "test_eia_part3"
    /\ op # "none"
    /\ arg' = df
    /\ df' = filter_since(df, DateStr(s))
    /\ start' = s
    /\ op' = "filter_since"
    /\ UNCHANGED <<data, ret, dashvars>>

\* out = sum_by_week(df, "week", "value")
CallSumByWeek ==
    /\ script = "test_eia_part3"
    /\ op # "none"
    /\ arg' = df
    /\ df' = sum_by_week(df)
    /\ op' = "sum_by_week"
    /\ UNCHANGED <<data, start, ret, dashvars>>

\* v = latest_value(df, "week", "value"), or the ValueError it raises
CallLatestValue ==
    /\ script = "test_eia_part3"
    /\ op # "none"
    /\ arg' = df
    /\ ret' = latest_value(df)
    /\ op' = "latest_value"
    /\ UNCHANGED <<data, df, start, dashvars>>

\* df = pd.DataFrame({...}) built by hand
Construct ==
    /\ script \in {"test_week_ending", "test_validation"}
    /\ op = "none"
    /\ df' = frame_from_columns(data)
    /\ op' = "DataFrame"
    /\ UNCHANGED <<data, arg, start, ret, dashvars>>

\* out = add_week_ending_friday_column(df)
CallAddWeekEnding ==
    /\ script = "test_week_ending"
    /\ op = "DataFrame"
    /\ arg' = df
    /\ df' = add_week_ending_friday_column(df)
    /\ op' = "add_week_ending_friday_column"
    /\ UNCHANGED <<data, start, ret, dashvars>>

\* eia_schema.validate(df), or the SchemaError it raises
CallValidate ==
    /\ script = "test_validation"
    /\ op = "DataFrame"
    /\ arg' = df
    /\ ret' = eia_schema_validate(df)
    /\ op' = "validate"
    /\ UNCHANGED <<data, df, start, dashvars>>

NextTests ==
    \/ CallBuild
    \/ \E s \in StartDays : CallFilterSince(s)
    \/ CallSumByWeek
    \/ CallLatestValue
    \/ Construct
    \/ CallAddWeekEnding
    \/ CallValidate

Spec == InitTests /\ [][NextTests]_vars

----------------------------------------------------------------------------
(* Properties of the helpers, stated for Spec. *)

Rows(t) == {t[i] : i \in DOMAIN t}

\* One row per week key: what the spec calls a series.
UniqueWeeks(t) == \A i, j \in DOMAIN t : t[i].week = t[j].week => i = j

\* The sum of the integers f[i], i in I, added up one index at a time.
RECURSIVE SumOver(_, _)
SumOver(f, I) ==
    IF I = {} THEN 0
    ELSE LET i == CHOOSE x \in I : TRUE IN f[i] + SumOver(f, I \ {i})

Parses(rec) == rec.period.k = "datestr" /\ rec.value.k = "numstr"

\* C1: build_df_from_eia_data returns no more rows than it was given records;
\* record i is retained (as the row labelled i, holding its parsed date and
\* number) if and only if its period parses as a date and its value parses as a
\* number, every other record is dropped, and an empty list gives an empty table.
C1_ParseRetainsExactlyTheConvertible ==
    op = "build_df_from_eia_data" =>
        /\ Len(df) <= Len(data)
        /\ Len(df) = Cardinality({i \in DOMAIN data : Parses(data[i])})
        /\ \A i \in DOMAIN data :
              Parses(data[i]) <=>
                 \E r \in Rows(df) : /\ r.idx = i - 1
                                     /\ r.week = Ts(data[i].period.day, 0)
                                     /\ r.value = [k |-> "num", n |-> data[i].value.n, d |-> 1]
        /\ \A r \in Rows(df) : r.idx + 1 \in DOMAIN data /\ Parses(data[r.idx + 1])
        /\ (data = <<>> => df = <<>>)

\* The test's case: of [valid, bad date, bad value] only the valid row survives.
C1_Witness ==
    /\ op = "build_df_from_eia_data"
    /\ Len(data) = 3
    /\ Parses(data[1])
    /\ data[2].period = BadDateStr /\ data[2].value.k = "numstr"
    /\ data[3].period.k = "datestr" /\ data[3].value = BadNumStr
    /\ Len(df) = 1
    /\ df[1].idx = 0

\* C2: sum_by_week returns exactly one row per distinct week key of its input,
\* each holding the sum of the input values with that key, in strictly ascending
\* week order; an empty input gives an empty output.
C2_SumByWeekOneRowPerWeek ==
    op = "sum_by_week" =>
        /\ \A r \in Rows(arg) : Cardinality({j \in DOMAIN df : df[j].week = r.week}) = 1
        /\ \A j \in DOMAIN df :
              LET I == {i \in DOMAIN arg : arg[i].week = df[j].week}
              IN /\ I # {}
                 /\ df[j].value.k = "num"
                 /\ df[j].value.d = 1
                 /\ df[j].value.n = SumOver([i \in DOMAIN arg |-> arg[i].value.n], I)
        /\ \A j \in 1..(Len(df) - 1) : TsLt(df[j].week, df[j + 1].week)
        /\ (arg = <<>> => df = <<>>)

\* Three unsorted rows, two of them in one week: 1 + 2 = 3 for that week.
C2_Witness ==
    /\ op = "sum_by_week"
    /\ Len(arg) = 3
    /\ arg[1].week = Ts(18, 0) /\ arg[1].value.n = 1
    /\ arg[2].week = Ts(11, 0) /\ arg[2].value.n = 1
    /\ arg[3].week = Ts(18, 0) /\ arg[3].value.n = 2
    /\ Len(df) = 2
    /\ df[1].week = Ts(11, 0) /\ df[1].value.n = 1
    /\ df[2].week = Ts(18, 0) /\ df[2].value.n = 3

Permuted(t) == {[i \in DOMAIN t |-> t[f[i]]] : f \in Permutations(DOMAIN t)}

\* C3: on a non-empty series (one row per week key) latest_value returns the
\* value of the row with the maximum week key, and so does it on every
\* permutation of the rows; on a table with no rows it raises ValueError.
C3_LatestValueOrderInvariant ==
    (op = "latest_value" /\ UniqueWeeks(arg)) =>
        /\ (arg = <<>> => ret.err = "ValueError")
        /\ (arg # <<>> =>
              /\ ret.err = "none"
              /\ \E r \in Rows(arg) : /\ \A q \in Rows(arg) : TsGe(r.week, q.week)
                                      /\ ret.val = r.value
              /\ \A p \in Permuted(arg) : latest_value(p) = ret)

\* An unsorted series whose latest row is neither first nor last.
C3_Witness ==
    /\ op = "latest_value"
    /\ Len(arg) = 3
    /\ arg[1].week = Ts(11, 0) /\ arg[1].value.n = 1
    /\ arg[2].week = Ts(18, 0) /\ arg[2].value.n = 2
    /\ arg[3].week = Ts(4, 0) /\ arg[3].value.n = 1
    /\ ret = [err |-> "none", val |-> Num(2, 1)]

\* latest_value(pd.DataFrame()) raises.
C3_WitnessEmpty == op = "latest_value" /\ arg = <<>> /\ ret.err = "ValueError"

\* C4 as stated: every date, Saturdays and Sundays included, is mapped to
\* midnight of the Friday of its ISO (Monday-to-Sunday) calendar week.
C4_AsStated_FridayOfIsoWeek ==
    op = "add_week_ending_friday_column" =>
        \A i \in DOMAIN df : df[i].week_ending = iso_week_friday(arg[i].week)

\* C4, amended: every date is mapped to midnight of the first Friday on or
\* after it (the Friday ending its Saturday-to-Friday week): for Monday to
\* Friday that is the Friday of the ISO week, for Saturday and Sunday the Friday
\* of the following ISO week.  The key of a row is decided by its own date, and
\* the other columns are kept.
C4_FirstFridayOnOrAfter ==
    op = "add_week_ending_friday_column" =>
        /\ Len(df) = Len(arg)
        /\ \A i \in DOMAIN df :
              LET d == arg[i].week.day
                  w == df[i].week_ending
              IN /\ w.k = "ts"
                 /\ w.tod = 0
                 /\ w.day % 7 = 4
                 /\ w.day >= d
                 /\ w.day <= d + 6
                 /\ (d % 7 <= 4 => w = iso_week_friday(arg[i].week))
                 /\ (d % 7 >= 5 => w.day = iso_week_friday(arg[i].week).day + 7)
                 /\ df[i] = [arg[i] EXCEPT !.week_ending = w]

\* Tuesday 2012-01-03 becomes 2012-01-06 and, beside it, Saturday 2012-01-07
\* becomes 2012-01-13.
C4_Witness ==
    /\ op = "add_week_ending_friday_column"
    /\ Len(arg) = 2
    /\ arg[1].week = Ts(8, 0) /\ df[1].week_ending = Ts(11, 0)
    /\ arg[2].week = Ts(12, 0) /\ df[2].week_ending = Ts(18, 0)

ValidRow(r) == r.week.k = "ts" /\ r.value.k = "num" /\ r.value.n >= 0

\* C5: eia_schema.validate accepts a table if and only if every row has a valid
\* date in the week column and a non-null number >= 0 in the value column; it
\* then returns all the rows, and otherwise raises SchemaError and returns
\* nothing.
C5_SchemaAcceptsIffEveryRowValid ==
    op = "validate" =>
        /\ ret.err = "none" <=> \A r \in Rows(arg) : ValidRow(r)
        /\ (ret.err = "none" => ret.val = arg)
        /\ (ret.err # "none" => ret.err = "SchemaError" /\ ret.val = <<>>)

\* One negative value among valid rows fails the whole table.
C5_Witness ==
    /\ op = "validate"
    /\ Len(arg) = 3
    /\ ValidRow(arg[1]) /\ arg[1].value.n = 0
    /\ arg[2].week.k = "ts" /\ arg[2].value = Num(-5, 1)
    /\ ValidRow(arg[3])
    /\ ret = [err |-> "SchemaError", val |-> <<>>]

\* A table of valid rows, a zero among them, is accepted whole.
C5_WitnessAccepted ==
    /\ op = "validate"
    /\ Len(arg) = 2
    /\ arg[1].value.n = 0
    /\ ret = [err |-> "none", val |-> arg]

\* C6: filter_since(t, s) returns exactly the rows of t dated s or later, in
\* their order (a row dated s is kept, an earlier one removed), possibly none,
\* and filtering the result again with the same s returns the same table.
C6_FilterSinceKeepsFromStart ==
    op = "filter_since" =>
        /\ Len(df) = Cardinality({i \in DOMAIN arg : arg[i].week.day >= start})
        /\ \A r \in Rows(df) : r.week.day >= start /\ r \in Rows(arg)
        /\ \A r \in Rows(arg) : r.week.day >= start => r \in Rows(df)
        /\ \A i, j \in DOMAIN df :
              i < j => \E a, b \in DOMAIN arg : a < b /\ arg[a] = df[i] /\ arg[b] = df[j]
        /\ filter_since(df, DateStr(start)) = df

\* A row dated exactly the start date is kept and an earlier one is removed.
C6_Witness ==
    /\ op = "filter_since"
    /\ start = 11
    /\ Len(arg) = 3
    /\ arg[1].week = Ts(4, 0)
    /\ arg[2].week = Ts(11, 0)
    /\ arg[3].week = Ts(18, 0)
    /\ df = <<arg[2], arg[3]>>

\* No row qualifies: the result is empty.
C6_WitnessEmpty ==
    /\ op = "filter_since"
    /\ Len(arg) = 2
    /\ df = <<>>

----------------------------------------------------------------------------
(* The dashboards: payload handling. *)

\* The records a supply payload and a WTI payload may hold: 2011-12-30,
\* Tuesday 2012-01-03, and the Fridays 2012-01-06 and 2012-01-13.
SupplyRecords ==
    [period : {DateStr(4), DateStr(11), DateStr(18)}, value : {NumStr(1), NumStr(2)}]

WtiRecords ==
    [period : {DateStr(8), DateStr(11), DateStr(18)}, value : {NumStr(1), NumStr(2)}]
        \cup {[period |-> DateStr(11), value |-> BadNumStr]}

\* A decoded body: "response" missing, null, a scalar or a mapping; inside a
\* mapping "data" missing, null, a scalar or a list of records.
Payloads(records) ==
    {[response |-> r, data |-> "missing", rows |-> <<>>] :
        r \in {"missing", "null", "scalar", "mapping"}}
    \cup {[response |-> "mapping", data |-> d, rows |-> <<>>] : d \in {"null", "scalar"}}
    \cup {[response |-> "mapping", data |-> "list", rows |-> x] :
             x \in SeqsUpTo(records, MaxRows)}

\* payload.get("response", {}).get("data", []): the data, or the
\* AttributeError of calling .get on what is no mapping.
get_data(p) ==
    CASE p.response = "missing" -> [err |-> "none", kind |-> "list", rows |-> <<>>]
      [] p.response \in {"null", "scalar"} ->
             [err |-> "AttributeError", kind |-> "none", rows |-> <<>>]
      [] p.data = "missing" -> [err |-> "none", kind |-> "list", rows |-> <<>>]
      [] OTHER -> [err |-> "none", kind |-> p.data, rows |-> p.rows]

\* data_json["response"]["data"] behind the test "response" in data_json.
subscript_data(p) ==
    CASE p.response = "missing" -> [err |-> "absent", kind |-> "none", rows |-> <<>>]
      [] p.response \in {"null", "scalar"} ->
             [err |-> "TypeError", kind |-> "none", rows |-> <<>>]
      [] p.data = "missing" -> [err |-> "KeyError", kind |-> "none", rows |-> <<>>]
      [] OTHER -> [err |-> "none", kind |-> p.data, rows |-> p.rows]

\* pd.DataFrame(x) raises ValueError on a scalar; DataFrame(None) is empty.
DataFrameRaises(g) == g.kind = "scalar"

Crash(e) ==
    /\ pc' = "crashed"
    /\ ret' = [err |-> e, val |-> NaN]
    /\ shown' = shown

Stop(msg) ==
    /\ pc' = "stopped"
    /\ shown' = msg
    /\ ret' = ret

Goto(l) ==
    /\ pc' = l
    /\ shown' = shown
    /\ ret' = ret

Mine(s) == IF s = "Homepage" THEN js.supply ELSE js.wti

InitDash ==
    /\ script \in {"Homepage", "pages", "Pages_test", "app"}
    /\ pc = "fetch"
    /\ js = [supply |-> NoJs, wti |-> NoJs]
    /\ data = <<>>
    /\ df = <<>>
    /\ arg = <<>>
    /\ op = "none"
    /\ start = 0
    /\ ret = NoRet
    /\ supply = <<>>
    /\ wti = <<>>
    /\ merged = <<>>
    /\ rolling_weeks = 1
    /\ end_ts = 0
    /\ shown = "none"
    /\ metric = NoMetric

----------------------------------------------------------------------------
(* Homepage.py and pages/2_WTI_Price.py *)

\* payload = fetch_supply_json(SUPPLY_URL) / fetch_wti_json(URL)
H_Fetch ==
    /\ script \in {"Homepage", "pages"}
    /\ pc = "fetch"
    /\ \/ script = "Homepage"
          /\ \E p \in Payloads(SupplyRecords) : js' = [js EXCEPT !.supply = p]
       \/ script = "pages"
          /\ \E p \in Payloads(WtiRecords) : js' = [js EXCEPT !.wti = p]
    /\ pc' = "parse"
    /\ UNCHANGED <<script, data, df, arg, op, start, ret, supply, wti, merged,
                   rolling_weeks, end_ts, shown, metric>>

\* data = payload.get(...).get(...); df = build_df_from_eia_data(data);
\* if df.empty: st.error(...); st.stop()
H_Parse ==
    /\ script \in {"Homepage", "pages"}
    /\ pc = "parse"
    /\ LET g == get_data(Mine(script))
       IN IF g.err # "none" THEN Crash(g.err) /\ UNCHANGED <<data, df>>
          ELSE IF DataFrameRaises(g) THEN Crash("ValueError") /\ UNCHANGED <<data, df>>
          ELSE /\ data' = g.rows
               /\ df' = build_df_from_eia_data(g.rows)
               /\ IF df_empty(df') THEN Stop("no_data") ELSE Goto("filter")
    /\ UNCHANGED <<script, js, arg, op, start, supply, wti, merged,
                   rolling_weeks, end_ts, metric>>

\* df = filter_since(df, "week", "2012-01-01"); if df.empty: st.error; st.stop()
H_Filter ==
    /\ script \in {"Homepage", "pages"}
    /\ pc = "filter"
    /\ arg' = df
    /\ df' = filter_since(df, DateStr(6))
    /\ start' = 6
    /\ op' = "filter_since"
    /\ IF df_empty(df') THEN Stop("no_data_after_filter") ELSE Goto("aggregate")
    /\ UNCHANGED <<script, js, data, supply, wti, merged, rolling_weeks, end_ts, metric>>

\* weekly_total = sum_by_week(df, "week", "value")
H_Aggregate ==
    /\ script \in {"Homepage", "pages"}
    /\ pc = "aggregate"
    /\ arg' = df
    /\ df' = sum_by_week(df)
    /\ op' = "sum_by_week"
    /\ Goto("latest")
    /\ UNCHANGED <<script, js, data, start, supply, wti, merged, rolling_weeks,
                   end_ts, metric>>

\* try: latest = latest_value(weekly, ...) except Exception: latest = None
H_Latest ==
    /\ script \in {"Homepage", "pages"}
    /\ pc = "latest"
    /\ LET v == latest_value(df)
           shownv == IF v.err = "none" THEN v.val ELSE NaN
       IN metric' = IF script = "Homepage" THEN [metric EXCEPT !.total = shownv]
                    ELSE [metric EXCEPT !.wti = shownv]
    /\ Goto("done")
    /\ UNCHANGED <<script, js, data, df, arg, op, start, supply, wti, merged,
                   rolling_weeks, end_ts>>

----------------------------------------------------------------------------
(* Pages_test/2_WTI_Price.py *)

\* df.dropna(): a row with a missing cell in any column is dropped.
dropna_all_columns(t) ==
    SelectSeq(t, LAMBDA r : ~isna(r.period) /\ ~isna(r.value) /\ ~isna(r.week))

\* response = requests.get(URL); data_json = response.json()
P_Fetch ==
    /\ script = "Pages_test"
    /\ pc = "fetch"
    /\ \E p \in Payloads(WtiRecords) : js' = [js EXCEPT !.wti = p]
    /\ pc' = "parse"
    /\ UNCHANGED <<script, data, df, arg, op, start, ret, supply, wti, merged,
                   rolling_weeks, end_ts, shown, metric>>

\* if "response" not in data_json: st.error; st.stop()
\* data = data_json["response"]["data"]; df = pd.DataFrame(data)
\* if df.empty: st.error; st.stop()
P_Parse ==
    /\ script = "Pages_test"
    /\ pc = "parse"
    /\ LET g == subscript_data(js.wti)
       IN IF g.err = "absent" THEN Stop("fetch_error") /\ UNCHANGED <<data, df>>
          ELSE IF g.err # "none" THEN Crash(g.err) /\ UNCHANGED <<data, df>>
          ELSE IF DataFrameRaises(g) THEN Crash("ValueError") /\ UNCHANGED <<data, df>>
          ELSE /\ data' = g.rows
               /\ df' = DataFrame(g.rows)
               /\ IF df_empty(df') THEN Stop("no_data") ELSE Goto("clean")
    /\ UNCHANGED <<script, js, arg, op, start, supply, wti, merged,
                   rolling_weeks, end_ts, metric>>

\* df["week"] = to_datetime; df["value"] = to_numeric; df = df.dropna()
\* df = df[df["week"] >= "2012-01-01"]; if df.empty: st.error; st.stop()
P_Clean ==
    /\ script = "Pages_test"
    /\ pc = "clean"
    /\ LET df1 == [i \in DOMAIN df |->
                     [df[i] EXCEPT !.week = to_datetime(df[i].period),
                                   !.value = to_numeric(df[i].value)]]
           df2 == dropna_all_columns(df1)
       IN df' = SelectSeq(df2, LAMBDA r : TsGe(r.week, to_datetime(DateStr(6))))
    /\ start' = 6
    /\ IF df_empty(df') THEN Stop("no_data_after_filter") ELSE Goto("metric")
    /\ UNCHANGED <<script, js, data, arg, op, supply, wti, merged,
                   rolling_weeks, end_ts, metric>>

\* st.metric("Latest WTI Price", df["value"].iloc[-1])
P_Metric ==
    /\ script = "Pages_test"
    /\ pc = "metric"
    /\ metric' = [metric EXCEPT !.wti = df[Len(df)].value]
    /\ Goto("done")
    /\ UNCHANGED <<script, js, data, df, arg, op, start, supply, wti, merged,
                   rolling_weeks, end_ts>>

----------------------------------------------------------------------------
(* app.py *)

\* df.dropna(subset=["period", "value"])
dropna_period_value(t) == SelectSeq(t, LAMBDA r : ~isna(r.period) /\ ~isna(r.value))

\* The frame both loaders build before they aggregate: period and value
\* coerced, rows with a missing one dropped, week = the week-ending Friday.
weekly_keyed(records) ==
    LET df0 == DataFrame(records)
        df1 == [i \in DOMAIN df0 |->
                  [df0[i] EXCEPT !.period = to_datetime(df0[i].period),
                                 !.value = to_numeric(df0[i].value)]]
        df2 == dropna_period_value(df1)
    IN [i \in DOMAIN df2 |-> [df2[i] EXCEPT !.week = week_ending_friday(df2[i].period)]]

\* load_total_petroleum_supply_weekly: the weekly totals (the value column is
\* total_petroleum_supply), or the exception raised on the way.
load_total_petroleum_supply_weekly(p) ==
    LET g == get_data(p)
    IN IF g.err # "none" THEN [err |-> g.err, val |-> <<>>]
       ELSE IF DataFrameRaises(g) THEN [err |-> "ValueError", val |-> <<>>]
       ELSE IF df_empty(DataFrame(g.rows)) THEN [err |-> "none", val |-> <<>>]
       ELSE [err |-> "none", val |-> sort_values(groupby_sum(weekly_keyed(g.rows)))]

\* load_wti_spot_price_weekly: the weekly mean prices (the value column is
\* wti_usd_per_bbl), or the exception raised on the way.
load_wti_spot_price_weekly(p) ==
    LET g == get_data(p)
    IN IF g.err # "none" THEN [err |-> g.err, val |-> <<>>]
       ELSE IF DataFrameRaises(g) THEN [err |-> "ValueError", val |-> <<>>]
       ELSE IF df_empty(DataFrame(g.rows)) THEN [err |-> "none", val |-> <<>>]
       ELSE [err |-> "none", val |-> sort_values(groupby_mean(weekly_keyed(g.rows)))]

\* s[(s["week"] >= start_ts) & (s["week"] <= end_ts)].copy()
between(t, lo, hi) ==
    SelectSeq(t, LAMBDA r : TsGe(r.week, Ts(lo, 0)) /\ TsGe(Ts(hi, 0), r.week))

MergedRow(a, total, price) ==
    [week |-> a.week, total_petroleum_supply |-> total, wti_usd_per_bbl |-> price,
     supply_ra |-> NoNum, wti_ra |-> NoNum]

\* A merge that keeps the left rows without a match (how="left").
RECURSIVE merge_left(_, _)
merge_left(l, r) ==
    IF l = <<>> THEN <<>>
    ELSE LET a == Head(l)
             hits == SelectSeq(r, LAMBDA b : b.week = a.week)
         IN (IF hits = <<>> THEN <<MergedRow(a, a.value, NaN)>>
             ELSE [i \in DOMAIN hits |-> MergedRow(a, a.value, hits[i].value)])
            \o merge_left(Tail(l), r)

\* pd.merge(l, r, on="week", how="inner"): for each left row in order, a row
\* for each right row with the same week.
RECURSIVE merge_inner(_, _)
merge_inner(l, r) ==
    IF l = <<>> THEN <<>>
    ELSE LET a == Head(l)
             hits == SelectSeq(r, LAMBDA b : b.week = a.week)
         IN [i \in DOMAIN hits |-> MergedRow(a, a.value, hits[i].value)]
            \o merge_inner(Tail(l), r)

RECURSIVE SumCells(_)
SumCells(c) ==
    IF c = <<>> THEN Num(0, 1)
    ELSE NumAdd(SumCells(SubSeq(c, 1, Len(c) - 1)), c[Len(c)])

\* A rolling mean over the rows there are (min_periods=1).
rolling_mean_partial(col, n) ==
    [i \in DOMAIN col |->
        LET lo == IF i < n THEN 1 ELSE i - n + 1
            s == SumCells(SubSeq(col, lo, i))
        IN Num(s.n, s.d * (i - lo + 1))]

\* col.rolling(n).mean(): NaN until n rows are in the window, then their mean.
rolling_mean(col, n) ==
    [i \in DOMAIN col |->
        IF i < n THEN NaN
        ELSE LET s == SumCells(SubSeq(col, i - n + 1, i)) IN Num(s.n, s.d * n)]

\* 2011-12-26 and 2012-01-13 as start dates, 2012-01-06 and 2012-01-20 as end
\* dates of the sidebar.
StartChoices == {0, 18}
EndChoices == {11, 25}

\* try: supply = load_total_petroleum_supply_weekly(key); wti = load_wti_...
\* except Exception: st.error; st.stop()
\* if supply.empty: st.error; st.stop()   if wti.empty: st.error; st.stop()
A_Load ==
    /\ script = "app"
    /\ pc = "fetch"
    /\ \E p \in Payloads(SupplyRecords), q \in Payloads(WtiRecords) :
          LET s == load_total_petroleum_supply_weekly(p)
              w == load_wti_spot_price_weekly(q)
          IN IF s.err # "none"
             THEN /\ js' = [supply |-> p, wti |-> NoJs]
                  /\ supply' = <<>> /\ wti' = <<>>
                  /\ pc' = "stopped" /\ shown' = "load_error"
                  /\ ret' = [err |-> s.err, val |-> NaN]
             ELSE /\ js' = [supply |-> p, wti |-> q]
                  /\ supply' = s.val
                  /\ wti' = w.val
                  /\ IF w.err # "none"
                     THEN /\ pc' = "stopped" /\ shown' = "load_error"
                          /\ ret' = [err |-> w.err, val |-> NaN]
                     ELSE IF df_empty(s.val) THEN Stop("no_supply")
                     ELSE IF df_empty(w.val) THEN Stop("no_wti")
                     ELSE Goto("filter")
    /\ UNCHANGED <<script, data, df, arg, op, start, merged, rolling_weeks, end_ts, metric>>

\* supply = supply[(week >= start_ts) & (week <= end_ts)]; the same for wti
A_Filter ==
    /\ script = "app"
    /\ pc = "filter"
    /\ \E lo \in StartChoices, hi \in EndChoices :
          /\ lo < hi
          /\ start' = lo
          /\ end_ts' = hi
          /\ supply' = between(supply, lo, hi)
          /\ wti' = between(wti, lo, hi)
    /\ Goto("merge")
    /\ UNCHANGED <<script, js, data, df, arg, op, merged, rolling_weeks, metric>>

\* merged = pd.merge(supply, wti, on="week", how="inner").sort_values("week")
\* if merged.empty: st.warning; st.stop()
A_Merge ==
    /\ script = "app"
    /\ pc = "merge"
    /\ merged' = sort_values(merge_inner(supply, wti))
    /\ IF df_empty(merged') THEN Stop("no_overlap") ELSE Goto("rolling")
    /\ UNCHANGED <<script, js, data, df, arg, op, start, supply, wti,
                   rolling_weeks, end_ts, metric>>

Column(t, c) == [i \in DOMAIN t |-> t[i][c]]

\* if rolling_weeks > 1: the two _ra columns are rolling means, else copies
A_Rolling ==
    /\ script = "app"
    /\ pc = "rolling"
    /\ \E n \in 1..MaxRolling :
          /\ rolling_weeks' = n
          /\ LET sra == IF n > 1
                        THEN rolling_mean(Column(merged, "total_petroleum_supply"), n)
                        ELSE Column(merged, "total_petroleum_supply")
                 wra == IF n > 1
                        THEN rolling_mean(Column(merged, "wti_usd_per_bbl"), n)
                        ELSE Column(merged, "wti_usd_per_bbl")
             IN merged' = [i \in DOMAIN merged |->
                             [merged[i] EXCEPT !.supply_ra = sra[i], !.wti_ra = wra[i]]]
    /\ Goto("metrics")
    /\ UNCHANGED <<script, js, data, df, arg, op, start, supply, wti, end_ts, metric>>

\* c1.metric(..., merged[total].iloc[-1]); c2.metric(..., merged[wti].iloc[-1])
A_Metrics ==
    /\ script = "app"
    /\ pc = "metrics"
    /\ metric' = [total |-> merged[Len(merged)].total_petroleum_supply,
                  wti |-> merged[Len(merged)].wti_usd_per_bbl]
    /\ Goto("done")
    /\ UNCHANGED <<script, js, data, df, arg, op, start, supply, wti, merged,
                   rolling_weeks, end_ts>>

NextDash ==
    \/ H_Fetch
    \/ H_Parse
    \/ H_Filter
    \/ H_Aggregate
    \/ H_Latest
    \/ P_Fetch
    \/ P_Parse
    \/ P_Clean
    \/ P_Metric
    \/ A_Load
    \/ A_Filter
    \/ A_Merge
    \/ A_Rolling
    \/ A_Metrics

SpecDash == InitDash /\ [][NextDash]_vars

----------------------------------------------------------------------------
(* Properties of the dashboards, stated for SpecDash. *)

Weeks(t) == {t[i].week : i \in DOMAIN t}

AfterMerge ==
    /\ script = "app"
    /\ \/ pc \in {"rolling", "metrics", "done"}
       \/ pc = "stopped" /\ shown = "no_overlap"

\* C7: the exact-mode merge of app.py has a row for week w if and only if w is
\* a week of the supply series and of the WTI series, that row carries the two
\* series' values for w, and the rows are in strictly ascending week order (one
\* per week); two non-empty series with no week in common give an empty merge
\* and the script stops with its warning, without an exception.
C7_ExactMergeIsIntersection ==
    AfterMerge =>
        /\ Weeks(merged) = Weeks(supply) \cap Weeks(wti)
        /\ \A m \in Rows(merged) :
              /\ \E r \in Rows(supply) :
                    r.week = m.week /\ r.value = m.total_petroleum_supply
              /\ \E r \in Rows(wti) :
                    r.week = m.week /\ r.value = m.wti_usd_per_bbl
        /\ \A i \in 1..(Len(merged) - 1) : TsLt(merged[i].week, merged[i + 1].week)
        /\ (Weeks(supply) \cap Weeks(wti) = {} =>
              merged = <<>> /\ pc = "stopped" /\ ret.err = "none")

\* Each series has a week the other lacks; the one common week is merged.
C7_Witness ==
    /\ script = "app"
    /\ pc = "rolling"
    /\ Weeks(supply) = {Ts(4, 0), Ts(11, 0)}
    /\ Weeks(wti) = {Ts(11, 0), Ts(18, 0)}
    /\ Len(merged) = 1
    /\ merged[1].week = Ts(11, 0)

\* Two non-empty series without a common week: an empty merge, no exception.
C7_WitnessDisjoint ==
    /\ script = "app"
    /\ pc = "stopped"
    /\ shown = "no_overlap"
    /\ supply # <<>>
    /\ wti # <<>>
    /\ merged = <<>>

RECURSIVE ProdOver(_, _)
ProdOver(f, I) ==
    IF I = {} THEN 1
    ELSE LET i == CHOOSE x \in I : TRUE IN f[i] * ProdOver(f, I \ {i})

\* The cell c is the mean of the numbers raw[i], i in I: with D the product of
\* their denominators, c * |I| * D = the sum of raw[i] * D.
IsMeanOf(c, raw, I) ==
    LET D == ProdOver([i \in DOMAIN raw |-> raw[i].d], I)
        total == SumOver([i \in DOMAIN raw |-> raw[i].n * (D \div raw[i].d)], I)
    IN /\ c.k = "num"
       /\ c.n * Cardinality(I) * D = c.d * total

\* C8: with a window of 1 the smoothed columns of app.py equal the raw columns
\* in every row; with a window n > 1 their first n - 1 rows are missing (NaN)
\* and every later row i holds the mean of the raw rows i-n+1..i.
C8_RollingMean ==
    (script = "app" /\ pc \in {"metrics", "done"}) =>
        LET n == rolling_weeks
            rawS == Column(merged, "total_petroleum_supply")
            rawW == Column(merged, "wti_usd_per_bbl")
        IN \A i \in DOMAIN merged :
              /\ (n = 1 => /\ merged[i].supply_ra = rawS[i]
                           /\ merged[i].wti_ra = rawW[i])
              /\ (n > 1 /\ i < n => /\ merged[i].supply_ra = NaN
                                    /\ merged[i].wti_ra = NaN)
              /\ (n > 1 /\ i >= n =>
                    /\ IsMeanOf(merged[i].supply_ra, rawS, (i - n + 1)..i)
                    /\ IsMeanOf(merged[i].wti_ra, rawW, (i - n + 1)..i))

\* A window of 2 over two weeks: the first row is missing, the second is the
\* mean 3/2 of the prices 1 and 2.
C8_Witness ==
    /\ script = "app"
    /\ pc = "metrics"
    /\ rolling_weeks = 2
    /\ Len(merged) = 2
    /\ merged[1].wti_usd_per_bbl = Num(1, 1)
    /\ merged[2].wti_usd_per_bbl = Num(2, 1)
    /\ merged[1].wti_ra = NaN
    /\ merged[2].wti_ra = Num(3, 2)

\* A window of 1: the smoothed column is the raw column.
C8_WitnessIdentity ==
    /\ script = "app"
    /\ pc = "metrics"
    /\ rolling_weeks = 1
    /\ Len(merged) = 2
    /\ merged[2].wti_ra = merged[2].wti_usd_per_bbl

Malformed(p) ==
    \/ p.response \in {"missing", "null", "scalar"}
    \/ p.response = "mapping" /\ p.data \in {"missing", "null", "scalar"}

\* The messages a script stops with when it has nothing to show.
NoDataShown == {"no_data", "fetch_error", "load_error", "no_supply", "no_wti"}

\* C9: in every dashboard, once the script is past its parsing step with a
\* payload whose "response" or "data" key is absent or malformed, it has
\* stopped with one of its no-data messages; it has not crashed with an
\* unhandled exception.
C9_MalformedPayloadIsNoData ==
    (/\ script \in {"Homepage", "pages", "Pages_test", "app"}
     /\ pc \notin {"fetch", "parse"}
     /\ (Malformed(js.supply) \/ Malformed(js.wti))) =>
        /\ pc # "crashed"
        /\ pc = "stopped"
        /\ shown \in NoDataShown

\* The raw records whose value parses as a number.
Numeric(records) == {i \in DOMAIN records : records[i].value.k = "numstr"}

\* C10: in every variant that builds a weekly WTI series (pages/2_WTI_Price.py,
\* keyed by the date; app.py, keyed by the week-ending Friday), the value of a
\* week is the mean of the parsed values of all raw rows with that week key.
C10_WeeklyWtiIsMean ==
    /\ (script = "pages" /\ pc \in {"latest", "done"}) =>
          \A r \in Rows(df) :
             IsMeanOf(r.value, [i \in DOMAIN data |-> data[i].value],
                      {i \in Numeric(data) : data[i].period.day = r.week.day})
    /\ (script = "app" /\ pc = "filter") =>
          \A r \in Rows(wti) :
             IsMeanOf(r.value, [i \in DOMAIN js.wti.rows |-> js.wti.rows[i].value],
                      {i \in Numeric(js.wti.rows) :
                          /\ js.wti.rows[i].period.day <= r.week.day
                          /\ js.wti.rows[i].period.day >= r.week.day - 6})

\* The part of C10 that app.py keeps: its weekly WTI value is the mean.
C10_AppWeeklyWtiIsMean ==
    (script = "app" /\ pc = "filter") =>
        \A r \in Rows(wti) :
           IsMeanOf(r.value, [i \in DOMAIN js.wti.rows |-> js.wti.rows[i].value],
                    {i \in Numeric(js.wti.rows) :
                        /\ js.wti.rows[i].period.day <= r.week.day
                        /\ js.wti.rows[i].period.day >= r.week.day - 6})

\* The values column c of table t holds in the rows with the maximum week key.
LatestOf(t, c) ==
    {t[i][c] : i \in {i \in DOMAIN t : \A j \in DOMAIN t : TsGe(t[i].week, t[j].week)}}

\* C11: in every dashboard variant the "latest" metric is a value of the
\* maximum week key of the series it is read from (the weekly table of
\* Homepage.py and pages/2_WTI_Price.py, the filtered table of
\* Pages_test/2_WTI_Price.py, the merged table of app.py), whatever the order
\* of the records in the payload.
C11_LatestMetricIsValueOfMaxWeek ==
    pc = "done" =>
        /\ script = "Homepage" => metric.total \in LatestOf(df, "value")
        /\ script \in {"pages", "Pages_test"} => metric.wti \in LatestOf(df, "value")
        /\ script = "app" =>
              /\ metric.total \in LatestOf(merged, "total_petroleum_supply")
              /\ metric.wti \in LatestOf(merged, "wti_usd_per_bbl")

\* The part of C11 that the variants which sort their table keep: Homepage.py,
\* pages/2_WTI_Price.py and app.py show the value of the maximum week key.
C11_SortingVariantsLatest ==
    (pc = "done" /\ script # "Pages_test") =>
        /\ script = "Homepage" => metric.total \in LatestOf(df, "value")
        /\ script = "pages" => metric.wti \in LatestOf(df, "value")
        /\ script = "app" =>
              /\ metric.total \in LatestOf(merged, "total_petroleum_supply")
              /\ metric.wti \in LatestOf(merged, "wti_usd_per_bbl")

\* Pages_test/2_WTI_Price.py given its records newest first (the order its URL
\* asks for) shows the price of the oldest week.
C11_DescendingPayloadShowsOldest ==
    /\ script = "Pages_test"
    /\ pc = "done"
    /\ Len(df) = 2
    /\ df[1].week = Ts(18, 0) /\ df[1].value = Num(1, 1)
    /\ df[2].week = Ts(11, 0) /\ df[2].value = Num(2, 1)
    /\ metric.wti = Num(2, 1)

-----------------------------------------------------------------------------
(* Filtering and aggregation, stated for Spec. *)

\* The (week, value) pairs of a table, row by row: the table as a series.
WeekValues(t) == [i \in DOMAIN t |-> <<t[i].week, t[i].value>>]

\* C12: for the parsed table t = build_df_from_eia_data(data) and a start date
\* s, sum_by_week(filter_since(t, s)) and filter_since(sum_by_week(t), s) hold
\* the same (week, value) pairs in the same order, and one is empty exactly
\* when the other is; stated at the call that completes either order.
C12_FilterAndSumCommute ==
    LET t == build_df_from_eia_data(data)
    IN /\ (op = "sum_by_week" /\ arg = filter_since(t, DateStr(start))) =>
             /\ WeekValues(df) = WeekValues(filter_since(sum_by_week(t), DateStr(start)))
             /\ (df = <<>>) = (filter_since(sum_by_week(t), DateStr(start)) = <<>>)
       /\ (op = "filter_since" /\ arg = sum_by_week(t)) =>
             /\ WeekValues(df) = WeekValues(sum_by_week(filter_since(t, DateStr(start))))
             /\ (df = <<>>) = (sum_by_week(filter_since(t, DateStr(start))) = <<>>)

\* Filter then sum: unsorted records, two of them in the week 2012-01-13 and
\* one before the start date 2012-01-06; the week 2012-01-13 sums to 3 and the
\* early row is gone.
C12_Witness ==
    /\ op = "sum_by_week"
    /\ start = 11
    /\ Len(data) = 3
    /\ data[1] = [period |-> DateStr(18), value |-> NumStr(1)]
    /\ data[2] = [period |-> DateStr(4), value |-> NumStr(2)]
    /\ data[3] = [period |-> DateStr(18), value |-> NumStr(2)]
    /\ arg = filter_since(build_df_from_eia_data(data), DateStr(11))
    /\ Len(arg) = 2
    /\ Len(df) = 1
    /\ df[1].week = Ts(18, 0) /\ df[1].value = Num(3, 1)

\* Sum then filter on the same kind of input: the aggregate has the weeks
\* 2011-12-30 and 2012-01-13, the filter keeps the second.
C12_WitnessSumThenFilter ==
    /\ op = "filter_since"
    /\ start = 11
    /\ arg = sum_by_week(build_df_from_eia_data(data))
    /\ Len(data) = 3
    /\ Len(arg) = 2
    /\ Len(df) = 1
    /\ df[1].week = Ts(18, 0) /\ df[1].value = Num(3, 1)

====
